---- MODULE Spec2Model ----
(***************************************************************************)
(* Lifecycle orchestrator of dbctl's postgres backend                      *)
(* (internal/database/postgres): Start with its readiness poller and       *)
(* shutdown sequencing, and the CreateDB template-clone protocol run       *)
(* against the started base instance.                                      *)
(***************************************************************************)
EXTENDS Integers, Sequences, FiniteSets, TLC

\* ------------------------------------------------------------------ bounds

\* WaitForStart's timeout counted in ticker periods (20s / 100ms, scaled down).
TimeoutTicks == 2
\* Number of CreateDB calls made in one run.
MaxCalls == 2
\* Largest reading of time.Now().UnixNano() in one run.
MaxClock == 2

\* The poller's elapsed-tick counter saturates one past the deadline.
MaxElapsed == TimeoutTicks + 1

Callers == {1, 2}

\* How many Stop calls are followed.
MaxStops == 2
\* How many RemoveDB calls are followed.
MaxRemoves == 1

\* ------------------------------------------------------- errors and strings

\* Error values are their messages, as sequences of words; nil is the empty one.
NoErr == <<>>

ErrSqlOpen == <<"sql:", "unknown", "driver">>

DeadlineExceeded == <<"context", "deadline", "exceeded">>

errDatabaseNotExists == <<"database", "does", "not", "exist">>

MsgTemplateMissing == <<"pq:", "template", "database", "does", "not", "exist">>

MsgAlreadyExists == <<"pq:", "database", "already", "exists">>

MsgSourceBusy == <<"pq:", "source", "database", "is", "being", "accessed", "by", "other", "users">>

MsgConnRefused == <<"dial", "tcp:", "connection", "refused">>

\* strings.Contains on word sequences.
Contains(s, sub) ==
    \E i \in 1..(Len(s) - Len(sub) + 1) : SubSeq(s, i, i + Len(sub) - 1) = sub

\* strings.HasSuffix on word sequences.
HasSuffix(s, suffix) ==
    /\ Len(s) >= Len(suffix)
    /\ SubSeq(s, Len(s) - Len(suffix) + 1, Len(s)) = suffix

\* ------------------------------------------------------------- file system

DownFile == <<"001_init", ".", "down.sql">>

UpFile == <<"001_init", ".", "up.sql">>

FixtureFile == <<"users", ".", "sql">>

\* The directories of the run, each listed in sort.Strings order.
ReadDir(path) ==
    IF path = "migrations" THEN <<DownFile, UpFile>>
    ELSE IF path = "fixtures" THEN <<FixtureFile>>
    ELSE <<>>

\* os.Stat succeeds on these paths only.
PathExists(path) == path \in {"migrations", "fixtures"}

getFiles(path) ==
    IF path = "" THEN [err |-> FALSE, files |-> <<>>]
    ELSE IF ~PathExists(path) THEN [err |-> TRUE, files |-> <<>>]
    ELSE [err |-> FALSE, files |-> ReadDir(path)]

IsForward(f) == ~HasSuffix(f, <<"down.sql">>)

\* The migrationsFiles that WithMigrations(path) leaves in the config.
WithMigrations(path) == SelectSeq(getFiles(path).files, IsForward)

\* The fixtureFiles that WithFixtures(path) leaves in the config.
WithFixtures(path) == getFiles(path).files

\* ---------------------------------------------------------------- databases

DefaultName == <<"postgres">>

DefaultTemplate == <<"dbctl_template">>

\* fmt.Sprintf("dbctl_%d", time.Now().UnixNano())
DbName(nanos) == <<"dbctl_", ToString(nanos)>>

DbNames == {DefaultName, DefaultTemplate} \cup {DbName(t) : t \in 1..MaxClock}

NoDatabase == [exists |-> FALSE, data |-> <<>>]

EmptyDatabase == [exists |-> TRUE, data |-> <<>>]

\* The catalog of a freshly initialised server: only POSTGRES_DB exists.
FreshCatalog == [n \in DbNames |-> IF n = DefaultName THEN EmptyDatabase ELSE NoDatabase]

VARIABLES
    cfg,            \* Postgres.cfg: withUI, migrationsFiles, fixtureFiles
    sqlOpenOK,      \* whether sql.Open accepts the instance's URI
    detach,         \* Start's detach argument
    pc,             \* position of Start
    startErr,       \* what Start returned
    containerID,    \* Postgres.containerID
    pgwebCloseFunc, \* Start's pgwebCloseFunc is non-nil
    ctxDone,        \* the context passed to Start is cancelled
    elapsed,        \* ticks the readiness poller has consumed
    primary,        \* primary container: "none", "running", "terminated"
    ui,             \* pgweb container: "none", "running", "terminated"
    termLog,        \* Terminate calls made so far, in order
    serverUp,       \* the postgres server accepts connections
    accepted,       \* the server has accepted and completed a connection
    catalog,        \* the server's databases and what was applied to each
    clock,          \* time.Now().UnixNano()
    nCalls,         \* CreateDB calls begun
    cpc,            \* position of each CreateDB caller
    creq,           \* each caller's CreateDBRequest
    cname,          \* each caller's dbName
    cstmts,         \* statements each caller's current call has issued
    cres,           \* each caller's last CreateDB result
    stops,          \* what each Stop call returned, in order
    removes         \* the RemoveDB calls made so far, in order

vars ==
    <<cfg, sqlOpenOK, detach, pc, startErr, containerID, pgwebCloseFunc, ctxDone,
      elapsed, primary, ui, termLog, serverUp, accepted, catalog, clock, nCalls,
      cpc, creq, cname, cstmts, cres, stops, removes>>

startVars == <<detach, pc, startErr, containerID, pgwebCloseFunc, elapsed>>

containerVars == <<primary, ui, termLog>>

callVars == <<nCalls, cpc, creq, cname, cstmts, cres>>

adminVars == <<stops, removes>>

\* ------------------------------------------------------------ construction

NoRequest == [Migrations |-> "", Fixtures |-> ""]

NoResult == [status |-> "none", err |-> NoErr, uri |-> <<>>]

\* New(options...) followed by nothing else: no container, nothing recorded.
Init ==
    /\ \E mp \in {"", "migrations"}, fp \in {"", "fixtures"}, w \in BOOLEAN :
         cfg = [withUI |-> w,
                migrationsFiles |-> WithMigrations(mp),
                fixtureFiles |-> WithFixtures(fp)]
    /\ sqlOpenOK \in BOOLEAN
    /\ detach = FALSE
    /\ pc = "idle"
    /\ startErr = "pending"
    /\ containerID = ""
    /\ pgwebCloseFunc = FALSE
    /\ ctxDone = FALSE
    /\ elapsed = 0
    /\ primary = "none"
    /\ ui = "none"
    /\ termLog = <<>>
    /\ serverUp = FALSE
    /\ accepted = FALSE
    /\ catalog = FreshCatalog
    /\ clock = 1
    /\ nCalls = 0
    /\ cpc = [c \in Callers |-> "idle"]
    /\ creq = [c \in Callers |-> NoRequest]
    /\ cname = [c \in Callers |-> <<>>]
    /\ cstmts = [c \in Callers |-> <<>>]
    /\ cres = [c \in Callers |-> NoResult]
    /\ stops = <<>>
    /\ removes = <<>>

\* ------------------------------------------------------ connections and SQL

\* dbConnect: sql.Open only (the ping is commented out), so the context and the
\* server play no part in its result.
dbConnect(ctxExpired, open) ==
    IF open THEN [conn |-> TRUE, err |-> NoErr] ELSE [conn |-> FALSE, err |-> ErrSqlOpen]

\* What the server may answer to "create database <name> with template <template>".
ExecCreateWithTemplate(name, template) ==
    IF ~serverUp THEN {MsgConnRefused}
    ELSE IF ~catalog[template].exists THEN {MsgTemplateMissing}
    ELSE IF catalog[name].exists THEN {MsgAlreadyExists}
    ELSE {NoErr, MsgSourceBusy}

\* What the server may answer to "create database <name>".
ExecCreate(name) ==
    IF ~serverUp THEN {MsgConnRefused}
    ELSE IF catalog[name].exists THEN {MsgAlreadyExists}
    ELSE {NoErr}

\* TemplateErr without the message test: every failure counts as a missing
\* database.
Mut_TemplateErrUnclassified(msg) ==
    IF msg = NoErr THEN NoErr ELSE errDatabaseNotExists

\* The error createDatabaseWithTemplate makes of the statement's error.
TemplateErr(msg) ==
    IF msg = NoErr THEN NoErr
    ELSE IF Contains(msg, <<"does", "not", "exist">>) THEN errDatabaseNotExists
    ELSE msg

\* createDatabaseWithTemplate(ctx, conn, name, template): its possible outcomes.
\* sent tells whether the statement reached conn.Exec.
createDatabaseWithTemplate(connIsNil, name, template) ==
    IF connIsNil /\ dbConnect(FALSE, sqlOpenOK).err # NoErr
    THEN {[err |-> dbConnect(FALSE, sqlOpenOK).err, sent |-> FALSE]}
    ELSE {[err |-> TemplateErr(m), sent |-> TRUE] :
             m \in ExecCreateWithTemplate(name, template)}

\* The catalog after outcome o of createDatabaseWithTemplate(_, name, template).
CatalogAfterTemplate(o, name, template) ==
    IF o.sent /\ o.err = NoErr
    THEN [catalog EXCEPT ![name] = catalog[template]]
    ELSE catalog

\* applySQL(ctx, stmts, uri) against database db: done files were executed
\* before the first failure, sent statements reached conn.Exec.
applySQL(stmts, db) ==
    IF dbConnect(FALSE, sqlOpenOK).err # NoErr
    THEN {[err |-> TRUE, done |-> 0, sent |-> 0]}
    ELSE IF Len(stmts) = 0 THEN {[err |-> FALSE, done |-> 0, sent |-> 0]}
    ELSE IF serverUp /\ catalog[db].exists
    THEN {[err |-> k < Len(stmts), done |-> k,
           sent |-> IF k < Len(stmts) THEN k + 1 ELSE k] : k \in 0..Len(stmts)}
    ELSE {[err |-> TRUE, done |-> 0, sent |-> 1]}

RunMigrations(migrationsFiles, db) ==
    IF migrationsFiles = <<>> THEN {[err |-> FALSE, done |-> 0, sent |-> 0]}
    ELSE applySQL(migrationsFiles, db)

ApplyFixtures(fixtureFiles, db) ==
    IF Len(fixtureFiles) = 0 THEN {[err |-> FALSE, done |-> 0, sent |-> 0]}
    ELSE applySQL(fixtureFiles, db)

\* The catalog after outcome o of applySQL(stmts, db).
CatalogAfterApply(o, stmts, db) ==
    [catalog EXCEPT ![db].data = @ \o SubSeq(stmts, 1, o.done)]

\* A statement completes a connection handshake only on a server that is up.
Handshake(sent) == accepted \/ (sent /\ serverUp)

\* --------------------------------------------------------------- containers

\* container.Terminate on a running container: stopped when it returns nil.
Terminate(status, ok) == IF ok THEN "terminated" ELSE status

TermEntry(target, ctx, ok) == [target |-> target, ctx |-> ctx, ok |-> ok]

\* -------------------------------------------------------------------- Start

\* Lines 177-183 and 311-334: container.Run of the primary container.
StartLaunch(d) ==
    /\ pc = "idle"
    /\ detach' = d
    /\ elapsed' = 0
    /\ \E ok \in BOOLEAN :
         IF ok
         THEN /\ primary' = "running"
              /\ containerID' = "pg"
              /\ catalog' = FreshCatalog
              /\ pc' = "poll"
              /\ startErr' = startErr
         ELSE /\ pc' = "returned"
              /\ startErr' = "launch"
              /\ UNCHANGED <<primary, containerID, catalog>>
    /\ UNCHANGED <<cfg, sqlOpenOK, adminVars, pgwebCloseFunc, ctxDone, ui, termLog, serverUp,
                   accepted, clock, callVars>>

\* One tick of WaitForStart's loop, and Start's handling of its result.
WaitForStartTick ==
    /\ pc = "poll"
    /\ elapsed' = IF elapsed < MaxElapsed THEN elapsed + 1 ELSE elapsed
    /\ LET r == dbConnect(elapsed + 1 >= TimeoutTicks, sqlOpenOK) IN
         IF r.err = NoErr
         THEN /\ pc' = "migrate"
              /\ startErr' = startErr
         ELSE IF r.err = DeadlineExceeded
         THEN /\ pc' = "returned"
              /\ startErr' = "readiness"
         ELSE UNCHANGED <<pc, startErr>>
    /\ UNCHANGED <<cfg, sqlOpenOK, adminVars, detach, containerID, pgwebCloseFunc, ctxDone,
                   containerVars, serverUp, accepted, catalog, clock, callVars>>

\* StartRunMigrations with a rollback: a failing migration calls closeFunc
\* before Start returns the error.
Mut_MigrationsFailureRollsBack ==
    /\ pc = "migrate"
    /\ \E o \in RunMigrations(cfg.migrationsFiles, DefaultName) :
         /\ catalog' = CatalogAfterApply(o, cfg.migrationsFiles, DefaultName)
         /\ accepted' = Handshake(o.sent > 0)
         /\ IF o.err
            THEN \E closed \in BOOLEAN :
                   /\ pc' = "returned"
                   /\ startErr' = "migrations"
                   /\ primary' = Terminate(primary, closed)
                   /\ termLog' = Append(termLog, TermEntry("primary", "parent", closed))
                   /\ serverUp' = (serverUp /\ ~closed)
                   /\ ui' = ui
            ELSE /\ pc' = "snapshot"
                 /\ startErr' = startErr
                 /\ UNCHANGED <<containerVars, serverUp>>
    /\ UNCHANGED <<cfg, sqlOpenOK, adminVars, detach, containerID, pgwebCloseFunc,
                   ctxDone, elapsed, clock, callVars>>

\* Lines 185-189.
StartRunMigrations ==
    /\ pc = "migrate"
    /\ \E o \in RunMigrations(cfg.migrationsFiles, DefaultName) :
         /\ catalog' = CatalogAfterApply(o, cfg.migrationsFiles, DefaultName)
         /\ accepted' = Handshake(o.sent > 0)
         /\ IF o.err
            THEN pc' = "returned" /\ startErr' = "migrations"
            ELSE pc' = "snapshot" /\ startErr' = startErr
    /\ UNCHANGED <<cfg, sqlOpenOK, adminVars, detach, containerID, pgwebCloseFunc, ctxDone,
                   elapsed, containerVars, serverUp, clock, callVars>>

\* StartSnapshot with the snapshot's error returned instead of dropped.
Mut_SnapshotFatal ==
    /\ pc = "snapshot"
    /\ IF Len(cfg.migrationsFiles) > 0
       THEN \E o \in createDatabaseWithTemplate(TRUE, DefaultTemplate, DefaultName) :
              /\ catalog' = CatalogAfterTemplate(o, DefaultTemplate, DefaultName)
              /\ accepted' = Handshake(o.sent)
              /\ IF o.err # NoErr
                 THEN pc' = "returned" /\ startErr' = "snapshot"
                 ELSE pc' = "fixtures" /\ startErr' = startErr
       ELSE /\ pc' = "fixtures"
            /\ UNCHANGED <<catalog, accepted, startErr>>
    /\ UNCHANGED <<cfg, sqlOpenOK, adminVars, detach, containerID, pgwebCloseFunc, ctxDone,
                   elapsed, containerVars, serverUp, clock, callVars>>

\* StartSnapshot without the test for supplied migrations.
Mut_SnapshotUnconditional ==
    /\ pc = "snapshot"
    /\ \E o \in createDatabaseWithTemplate(TRUE, DefaultTemplate, DefaultName) :
         /\ catalog' = CatalogAfterTemplate(o, DefaultTemplate, DefaultName)
         /\ accepted' = Handshake(o.sent)
    /\ pc' = "fixtures"
    /\ UNCHANGED <<cfg, sqlOpenOK, adminVars, detach, startErr, containerID, pgwebCloseFunc,
                   ctxDone, elapsed, containerVars, serverUp, clock, callVars>>

\* Lines 191-194: the snapshot's error is dropped.
StartSnapshot ==
    /\ pc = "snapshot"
    /\ IF Len(cfg.migrationsFiles) > 0
       THEN \E o \in createDatabaseWithTemplate(TRUE, DefaultTemplate, DefaultName) :
              /\ catalog' = CatalogAfterTemplate(o, DefaultTemplate, DefaultName)
              /\ accepted' = Handshake(o.sent)
       ELSE UNCHANGED <<catalog, accepted>>
    /\ pc' = "fixtures"
    /\ UNCHANGED <<cfg, sqlOpenOK, adminVars, detach, startErr, containerID, pgwebCloseFunc,
                   ctxDone, elapsed, containerVars, serverUp, clock, callVars>>

\* Lines 196-199.
StartApplyFixtures ==
    /\ pc = "fixtures"
    /\ \E o \in ApplyFixtures(cfg.fixtureFiles, DefaultName) :
         /\ catalog' = CatalogAfterApply(o, cfg.fixtureFiles, DefaultName)
         /\ accepted' = Handshake(o.sent > 0)
         /\ IF o.err
            THEN pc' = "returned" /\ startErr' = "fixtures"
            ELSE pc' = "ui" /\ startErr' = startErr
    /\ UNCHANGED <<cfg, sqlOpenOK, adminVars, detach, containerID, pgwebCloseFunc, ctxDone,
                   elapsed, containerVars, serverUp, clock, callVars>>

\* StartRunUI without the rollback: a failed pgweb launch returns the error and
\* leaves the primary container alone.
Mut_RunUINoRollback ==
    /\ pc = "ui"
    /\ IF cfg.withUI
       THEN \E ok \in BOOLEAN :
              IF ok
              THEN /\ ui' = "running"
                   /\ pgwebCloseFunc' = TRUE
                   /\ IF detach
                      THEN pc' = "returned" /\ startErr' = "nil"
                      ELSE pc' = "blocked" /\ startErr' = startErr
              ELSE /\ pc' = "returned"
                   /\ startErr' = "uiLaunch"
                   /\ UNCHANGED <<ui, pgwebCloseFunc>>
       ELSE /\ IF detach
               THEN pc' = "returned" /\ startErr' = "nil"
               ELSE pc' = "blocked" /\ startErr' = startErr
            /\ UNCHANGED <<ui, pgwebCloseFunc>>
    /\ UNCHANGED <<cfg, sqlOpenOK, adminVars, detach, containerID, ctxDone, elapsed, primary,
                   termLog, serverUp, accepted, catalog, clock, callVars>>

\* Lines 204-216: the optional pgweb launch, its rollback, and the detach return.
StartRunUI ==
    /\ pc = "ui"
    /\ IF cfg.withUI
       THEN \E ok \in BOOLEAN :
              IF ok
              THEN /\ ui' = "running"
                   /\ pgwebCloseFunc' = TRUE
                   /\ IF detach
                      THEN pc' = "returned" /\ startErr' = "nil"
                      ELSE pc' = "blocked" /\ startErr' = startErr
                   /\ UNCHANGED <<primary, termLog, serverUp>>
              ELSE \E closed \in BOOLEAN :
                     /\ primary' = Terminate(primary, closed)
                     /\ termLog' = Append(termLog, TermEntry("primary", "parent", closed))
                     /\ serverUp' = (serverUp /\ ~closed)
                     /\ pc' = "returned"
                     /\ startErr' = "uiLaunch"
                     /\ UNCHANGED <<ui, pgwebCloseFunc>>
       ELSE /\ IF detach
               THEN pc' = "returned" /\ startErr' = "nil"
               ELSE pc' = "blocked" /\ startErr' = startErr
            /\ UNCHANGED <<ui, pgwebCloseFunc, primary, termLog, serverUp>>
    /\ UNCHANGED <<cfg, sqlOpenOK, adminVars, detach, containerID, ctxDone, elapsed, accepted,
                   catalog, clock, callVars>>

\* The context given to Start is cancelled.
CtxCancel ==
    /\ ~ctxDone
    /\ pc \notin {"idle", "returned"}
    /\ ctxDone' = TRUE
    /\ UNCHANGED <<cfg, sqlOpenOK, adminVars, startVars, containerVars, serverUp, accepted,
                   catalog, clock, callVars>>

\* StartShutdownUI with the pgweb teardown left out: shutdown goes straight to
\* the primary container.
Mut_ShutdownSkipsUI ==
    /\ pc = "blocked"
    /\ ctxDone
    /\ pc' = "closing"
    /\ UNCHANGED <<cfg, sqlOpenOK, adminVars, detach, startErr, containerID, pgwebCloseFunc,
                   ctxDone, elapsed, containerVars, serverUp, accepted, catalog,
                   clock, callVars>>

\* StartShutdownUI with the pgweb teardown's error dropped: best-effort teardown.
Mut_ShutdownUIBestEffort ==
    /\ pc = "blocked"
    /\ ctxDone
    /\ IF pgwebCloseFunc
       THEN \E ok \in BOOLEAN :
              /\ ui' = Terminate(ui, ok)
              /\ termLog' = Append(termLog, TermEntry("ui", "shutdown", ok))
       ELSE UNCHANGED <<ui, termLog>>
    /\ pc' = "closing"
    /\ UNCHANGED <<cfg, sqlOpenOK, adminVars, detach, startErr, containerID, pgwebCloseFunc,
                   ctxDone, elapsed, primary, serverUp, accepted, catalog, clock,
                   callVars>>

\* Lines 218-231: after <-ctx.Done(), the pgweb container goes first.
StartShutdownUI ==
    /\ pc = "blocked"
    /\ ctxDone
    /\ IF pgwebCloseFunc
       THEN \E ok \in BOOLEAN :
              /\ ui' = Terminate(ui, ok)
              /\ termLog' = Append(termLog, TermEntry("ui", "shutdown", ok))
              /\ IF ok
                 THEN pc' = "closing" /\ startErr' = startErr
                 ELSE pc' = "returned" /\ startErr' = "uiTerminate"
       ELSE /\ pc' = "closing"
            /\ UNCHANGED <<ui, termLog, startErr>>
    /\ UNCHANGED <<cfg, sqlOpenOK, adminVars, detach, containerID, pgwebCloseFunc, ctxDone,
                   elapsed, primary, serverUp, accepted, catalog, clock, callVars>>

\* StartShutdownPrimary with the cancelled parent context passed to closeFunc.
Mut_ShutdownPrimaryParentCtx ==
    /\ pc = "closing"
    /\ \E ok \in BOOLEAN :
         /\ primary' = Terminate(primary, ok)
         /\ termLog' = Append(termLog, TermEntry("primary", "parent", ok))
         /\ serverUp' = (serverUp /\ ~ok)
         /\ startErr' = IF ok THEN "nil" ELSE "primaryTerminate"
    /\ pc' = "returned"
    /\ UNCHANGED <<cfg, sqlOpenOK, adminVars, detach, containerID, pgwebCloseFunc, ctxDone,
                   elapsed, ui, accepted, catalog, clock, callVars>>

\* Line 233: return closeFunc(shutdownCtx).
StartShutdownPrimary ==
    /\ pc = "closing"
    /\ \E ok \in BOOLEAN :
         /\ primary' = Terminate(primary, ok)
         /\ termLog' = Append(termLog, TermEntry("primary", "shutdown", ok))
         /\ serverUp' = (serverUp /\ ~ok)
         /\ startErr' = IF ok THEN "nil" ELSE "primaryTerminate"
    /\ pc' = "returned"
    /\ UNCHANGED <<cfg, sqlOpenOK, adminVars, detach, containerID, pgwebCloseFunc, ctxDone,
                   elapsed, ui, accepted, catalog, clock, callVars>>

\* Lines 236-238: Stop hands the recorded containerID to TerminateByID, whatever
\* happened to that container before. Calls on one orchestrator are sequential,
\* so Stop runs once Start has returned.
Stop ==
    /\ pc = "returned"
    /\ Len(stops) < MaxStops
    /\ IF containerID = ""
       THEN /\ stops' = Append(stops, "err")
            /\ UNCHANGED <<containerVars, serverUp>>
       ELSE \E ok \in BOOLEAN :
              /\ primary' = Terminate(primary, ok)
              /\ termLog' = Append(termLog, TermEntry("primary", "stop", ok))
              /\ serverUp' = (serverUp /\ ~ok)
              /\ stops' = Append(stops, IF ok THEN "nil" ELSE "err")
              /\ ui' = ui
    /\ UNCHANGED <<cfg, sqlOpenOK, startVars, ctxDone, accepted, catalog, clock,
                   callVars, removes>>

\* The server inside the running primary container starts accepting connections.
ServerBoot ==
    /\ primary = "running"
    /\ ~serverUp
    /\ serverUp' = TRUE
    /\ UNCHANGED <<cfg, sqlOpenOK, adminVars, startVars, ctxDone, containerVars, accepted,
                   catalog, clock, callVars>>

\* time.Now() advances; only CreateDB reads it, so the first reading is 1.
ClockTick ==
    /\ clock < MaxClock
    /\ nCalls > 0
    /\ clock' = clock + 1
    /\ UNCHANGED <<cfg, sqlOpenOK, adminVars, startVars, ctxDone, containerVars, serverUp,
                   accepted, catalog, callVars>>

\* ----------------------------------------------------------------- CreateDB

\* The requests callers make.
Requests == {NoRequest, [Migrations |-> "migrations", Fixtures |-> "fixtures"]}

\* Start has brought the base instance up: it returned nil detached, or is blocked
\* on its context.
BaseInstanceUp ==
    /\ primary = "running"
    /\ \/ pc = "blocked"
       \/ pc = "returned" /\ startErr = "nil"

Stmt(kind, arg) == [kind |-> kind, arg |-> arg]

\* The first n files of stmts, as statements of the given kind.
FileStmts(kind, stmts, n) == [i \in 1..n |-> Stmt(kind, stmts[i])]

Ok(name) == [status |-> "ok", err |-> NoErr, uri |-> name]

Failed(err) == [status |-> "err", err |-> err, uri |-> <<>>]

\* CloneDecision without the return on the fast path: a successful clone falls
\* through to the plain create.
Mut_CloneNoFastReturn(err) ==
    IF err = NoErr \/ err = errDatabaseNotExists THEN "slow" ELSE "fail"

\* CloneDecision without the errors.Is test: every clone error falls back.
Mut_CloneAlwaysFallsBack(err) ==
    IF err = NoErr THEN "fast" ELSE "slow"

\* Lines 84-93: what CreateDB does with the clone attempt's error.
CloneDecision(err) ==
    IF err = NoErr THEN "fast"
    ELSE IF err # errDatabaseNotExists THEN "fail"
    ELSE "slow"

\* Lines 64-80: the caller enters CreateDB, connects and names the database.
CreateDBBegin(c, req) ==
    /\ cpc[c] = "idle"
    /\ nCalls < MaxCalls
    /\ BaseInstanceUp
    /\ nCalls' = nCalls + 1
    /\ creq' = [creq EXCEPT ![c] = req]
    /\ cstmts' = [cstmts EXCEPT ![c] = <<>>]
    /\ IF dbConnect(FALSE, sqlOpenOK).err # NoErr
       THEN /\ cres' = [cres EXCEPT ![c] = Failed(dbConnect(FALSE, sqlOpenOK).err)]
            /\ UNCHANGED <<cpc, cname>>
       ELSE /\ cres' = [cres EXCEPT ![c] = NoResult]
            /\ cname' = [cname EXCEPT ![c] = DbName(clock)]
            /\ cpc' = [cpc EXCEPT ![c] = "clone"]
    /\ UNCHANGED <<cfg, sqlOpenOK, adminVars, startVars, ctxDone, containerVars, serverUp,
                   accepted, catalog, clock>>

\* Lines 82-93: the clone attempt and the fast-path return.
CreateDBClone(c) ==
    /\ cpc[c] = "clone"
    /\ \E o \in createDatabaseWithTemplate(FALSE, cname[c], DefaultTemplate) :
         /\ catalog' = CatalogAfterTemplate(o, cname[c], DefaultTemplate)
         /\ accepted' = Handshake(o.sent)
         /\ cstmts' = [cstmts EXCEPT ![c] = Append(@, Stmt("clone", DefaultTemplate))]
         /\ IF CloneDecision(o.err) = "fast"
            THEN /\ cpc' = [cpc EXCEPT ![c] = "idle"]
                 /\ cres' = [cres EXCEPT ![c] = Ok(cname[c])]
            ELSE IF CloneDecision(o.err) = "fail"
            THEN /\ cpc' = [cpc EXCEPT ![c] = "idle"]
                 /\ cres' = [cres EXCEPT ![c] = Failed(o.err)]
            ELSE /\ cpc' = [cpc EXCEPT ![c] = "create"]
                 /\ cres' = cres
    /\ UNCHANGED <<cfg, sqlOpenOK, adminVars, startVars, ctxDone, containerVars, serverUp,
                   clock, nCalls, creq, cname>>

\* CreateDBCreate with the statement's error ignored.
Mut_CreateIgnoresError(c) ==
    /\ cpc[c] = "create"
    /\ \E m \in ExecCreate(cname[c]) :
         /\ cstmts' = [cstmts EXCEPT ![c] = Append(@, Stmt("create", cname[c]))]
         /\ accepted' = Handshake(TRUE)
         /\ catalog' = IF m = NoErr
                       THEN [catalog EXCEPT ![cname[c]] = EmptyDatabase]
                       ELSE catalog
         /\ cpc' = [cpc EXCEPT ![c] = "migrate"]
         /\ cres' = cres
    /\ UNCHANGED <<cfg, sqlOpenOK, adminVars, startVars, ctxDone, containerVars, serverUp,
                   clock, nCalls, creq, cname>>

\* Lines 95-97: plain create database.
CreateDBCreate(c) ==
    /\ cpc[c] = "create"
    /\ \E m \in ExecCreate(cname[c]) :
         /\ cstmts' = [cstmts EXCEPT ![c] = Append(@, Stmt("create", cname[c]))]
         /\ accepted' = Handshake(TRUE)
         /\ IF m = NoErr
            THEN /\ catalog' = [catalog EXCEPT ![cname[c]] = EmptyDatabase]
                 /\ cpc' = [cpc EXCEPT ![c] = "migrate"]
                 /\ cres' = cres
            ELSE /\ catalog' = catalog
                 /\ cpc' = [cpc EXCEPT ![c] = "idle"]
                 /\ cres' = [cres EXCEPT ![c] = Failed(m)]
    /\ UNCHANGED <<cfg, sqlOpenOK, adminVars, startVars, ctxDone, containerVars, serverUp,
                   clock, nCalls, creq, cname>>

\* Lines 99-108: the request's migrations, every file getFiles lists.
CreateDBMigrate(c) ==
    /\ cpc[c] = "migrate"
    /\ IF Len(creq[c].Migrations) # 0
       THEN LET got == getFiles(creq[c].Migrations) IN
              IF got.err
              THEN /\ cpc' = [cpc EXCEPT ![c] = "idle"]
                   /\ cres' = [cres EXCEPT ![c] = Failed(<<"read", "migraions", "failed">>)]
                   /\ UNCHANGED <<catalog, accepted, cstmts>>
              ELSE \E o \in RunMigrations(got.files, cname[c]) :
                     /\ catalog' = CatalogAfterApply(o, got.files, cname[c])
                     /\ accepted' = Handshake(o.sent > 0)
                     /\ cstmts' = [cstmts EXCEPT ![c] =
                                     @ \o FileStmts("migration", got.files, o.sent)]
                     /\ IF o.err
                        THEN /\ cpc' = [cpc EXCEPT ![c] = "idle"]
                             /\ cres' = [cres EXCEPT ![c] = Failed(<<"applying", "file", "failed">>)]
                        ELSE /\ cpc' = [cpc EXCEPT ![c] = "snapshot"]
                             /\ cres' = cres
       ELSE /\ cpc' = [cpc EXCEPT ![c] = "snapshot"]
            /\ UNCHANGED <<catalog, accepted, cstmts, cres>>
    /\ UNCHANGED <<cfg, sqlOpenOK, adminVars, startVars, ctxDone, containerVars, serverUp,
                   clock, nCalls, creq, cname>>

\* CreateDBSnapshot with the snapshot's error returned instead of dropped.
Mut_CreateDBSnapshotFatal(c) ==
    /\ cpc[c] = "snapshot"
    /\ \E o \in createDatabaseWithTemplate(FALSE, DefaultTemplate, cname[c]) :
         /\ catalog' = CatalogAfterTemplate(o, DefaultTemplate, cname[c])
         /\ accepted' = Handshake(o.sent)
         /\ cstmts' = [cstmts EXCEPT ![c] = Append(@, Stmt("snapshot", cname[c]))]
         /\ IF o.err # NoErr
            THEN /\ cpc' = [cpc EXCEPT ![c] = "idle"]
                 /\ cres' = [cres EXCEPT ![c] = Failed(o.err)]
            ELSE /\ cpc' = [cpc EXCEPT ![c] = "fixtures"]
                 /\ cres' = cres
    /\ UNCHANGED <<cfg, sqlOpenOK, adminVars, startVars, ctxDone, containerVars, serverUp,
                   clock, nCalls, creq, cname>>

\* Lines 110-111: the snapshot's error is dropped.
CreateDBSnapshot(c) ==
    /\ cpc[c] = "snapshot"
    /\ \E o \in createDatabaseWithTemplate(FALSE, DefaultTemplate, cname[c]) :
         /\ catalog' = CatalogAfterTemplate(o, DefaultTemplate, cname[c])
         /\ accepted' = Handshake(o.sent)
         /\ cstmts' = [cstmts EXCEPT ![c] = Append(@, Stmt("snapshot", cname[c]))]
    /\ cpc' = [cpc EXCEPT ![c] = "fixtures"]
    /\ UNCHANGED <<cfg, sqlOpenOK, adminVars, startVars, ctxDone, containerVars, serverUp,
                   clock, nCalls, creq, cname, cres>>

\* Lines 113-124: the request's fixtures and the slow-path return.
CreateDBFixtures(c) ==
    /\ cpc[c] = "fixtures"
    /\ IF Len(creq[c].Fixtures) # 0
       THEN LET got == getFiles(creq[c].Fixtures) IN
              IF got.err
              THEN /\ cres' = [cres EXCEPT ![c] = Failed(<<"read", "fixtures", "failed">>)]
                   /\ UNCHANGED <<catalog, accepted, cstmts>>
              ELSE \E o \in ApplyFixtures(got.files, cname[c]) :
                     /\ catalog' = CatalogAfterApply(o, got.files, cname[c])
                     /\ accepted' = Handshake(o.sent > 0)
                     /\ cstmts' = [cstmts EXCEPT ![c] =
                                     @ \o FileStmts("fixture", got.files, o.sent)]
                     /\ cres' = [cres EXCEPT ![c] =
                                   IF o.err THEN Failed(<<"applying", "file", "failed">>)
                                   ELSE Ok(cname[c])]
       ELSE /\ cres' = [cres EXCEPT ![c] = Ok(cname[c])]
            /\ UNCHANGED <<catalog, accepted, cstmts>>
    /\ cpc' = [cpc EXCEPT ![c] = "idle"]
    /\ UNCHANGED <<cfg, sqlOpenOK, adminVars, startVars, ctxDone, containerVars, serverUp,
                   clock, nCalls, creq, cname>>

\* ----------------------------------------------------------------- RemoveDB

\* Line 169: the session-termination statement; $1 stands for a value.
TerminateStmt ==
    <<"select", "pg_terminate_backend", "from", "pg_stat_activity", "where",
      "datname", "=", "$1">>

\* Line 170: the drop statement; $1 stands where the database's name belongs.
DropStmt == <<"drop", "database", "if", "exists", "$1">>

MsgSyntaxError == <<"syntax", "error", "at", "or", "near", "$1">>

MsgDropMissing == <<"database", "does", "not", "exist">>

MsgInUse == <<"database", "is", "being", "accessed", "by", "other", "users">>

\* What the server answers to a drop statement sent with one argument. A
\* parameter is a value, not an identifier: the server rejects it in the place
\* of the database's name before it looks at any database. open tells whether
\* the named database has sessions at that moment.
ExecDrop(stmt, arg, open) ==
    IF ~serverUp THEN MsgConnRefused
    ELSE IF stmt[Len(stmt)] = "$1" THEN MsgSyntaxError
    ELSE IF ~catalog[arg].exists
    THEN IF Contains(stmt, <<"if", "exists">>) THEN NoErr ELSE MsgDropMissing
    ELSE IF open THEN MsgInUse
    ELSE NoErr

\* The catalog after the server answered msg to a drop of database arg.
CatalogAfterDrop(msg, arg) ==
    IF msg = NoErr THEN [catalog EXCEPT ![arg] = NoDatabase] ELSE catalog

\* Line 169: whether the target still has sessions once the termination
\* statement was sent; a server that is up ends them all.
SessionsAfterTerminate(sessions) == sessions /\ ~serverUp

\* fmt.Errorf("drop database failed: %v", err).
DropFailed(msg) == <<"drop", "database", "failed">> \o msg

\* Lines 150-175: RemoveDB(ctx, uri) for a URI naming database target, which has
\* sessions or not when the call starts. The termination statement's result is
\* dropped; it ends the target's sessions when the server runs it. Calls are
\* followed on a base instance that is up and between CreateDB calls.
RemoveDB(target, sessions) ==
    /\ Len(removes) < MaxRemoves
    /\ BaseInstanceUp
    /\ \A c \in Callers : cpc[c] = "idle"
    /\ IF dbConnect(FALSE, sqlOpenOK).err # NoErr
       THEN /\ removes' = Append(removes,
                            [target |-> target, existed |-> catalog[target].exists,
                             sessions |-> sessions, stmts |-> <<>>,
                             executed |-> FALSE,
                             err |-> dbConnect(FALSE, sqlOpenOK).err])
            /\ UNCHANGED <<catalog, accepted>>
       ELSE LET open == SessionsAfterTerminate(sessions)
                msg == ExecDrop(DropStmt, target, open)
            IN  /\ catalog' = CatalogAfterDrop(msg, target)
                /\ accepted' = Handshake(TRUE)
                /\ removes' = Append(removes,
                                [target |-> target, existed |-> catalog[target].exists,
                                 sessions |-> sessions,
                                 stmts |-> <<TerminateStmt, DropStmt>>,
                                 executed |-> serverUp,
                                 err |-> IF msg = NoErr THEN NoErr ELSE DropFailed(msg)])
    /\ UNCHANGED <<cfg, sqlOpenOK, startVars, ctxDone, containerVars, serverUp,
                   clock, callVars, stops>>

\* ------------------------------------------------------------ specification

Next ==
    \/ \E d \in BOOLEAN : StartLaunch(d)
    \/ WaitForStartTick
    \/ StartRunMigrations
    \/ StartSnapshot
    \/ StartApplyFixtures
    \/ StartRunUI
    \/ CtxCancel
    \/ StartShutdownUI
    \/ StartShutdownPrimary
    \/ ServerBoot
    \/ ClockTick
    \/ \E c \in Callers, req \in Requests : CreateDBBegin(c, req)
    \/ \E c \in Callers : CreateDBClone(c)
    \/ \E c \in Callers : CreateDBCreate(c)
    \/ \E c \in Callers : CreateDBMigrate(c)
    \/ \E c \in Callers : CreateDBSnapshot(c)
    \/ \E c \in Callers : CreateDBFixtures(c)

Spec == Init /\ [][Next]_vars

\* The base instance with CreateDB and RemoveDB callers.
NextRemove ==
    \/ Next
    \/ \E target \in {DbName(t) : t \in 1..MaxClock}, sessions \in BOOLEAN :
         RemoveDB(target, sessions)

SpecRemove == Init /\ [][NextRemove]_vars

\* The orchestrator's own lifecycle: Start, cancellation and Stop, without
\* CreateDB callers.
NextLifecycle ==
    \/ \E d \in BOOLEAN : StartLaunch(d)
    \/ WaitForStartTick
    \/ StartRunMigrations
    \/ StartSnapshot
    \/ StartApplyFixtures
    \/ StartRunUI
    \/ CtxCancel
    \/ StartShutdownUI
    \/ StartShutdownPrimary
    \/ ServerBoot
    \/ Stop

SpecLifecycle == Init /\ [][NextLifecycle]_vars

\* ------------------------------------------------------------------- claims

TemplateExists == catalog[DefaultTemplate].exists

\* The positions of termLog that hold a Terminate of the given container.
TermsOf(target) == {i \in 1..Len(termLog) : termLog[i].target = target}

\* Caller c takes its clone step in this transition.
CloneStep(c) == cpc[c] = "clone" /\ cstmts'[c] # cstmts[c]

KindsOf(c) == {cstmts[c][i].kind : i \in 1..Len(cstmts[c])}

\* C1: during shutdown the pgweb container's Terminate is called, and has
\* succeeded, before the primary container's Terminate is called; the primary
\* container is never terminated by shutdown while the pgweb container runs.
C1_UIBeforePrimary ==
    /\ \A j \in TermsOf("primary") :
         (termLog[j].ctx = "shutdown" /\ pgwebCloseFunc) =>
            \E i \in TermsOf("ui") : i < j /\ termLog[i].ok
    /\ (pc = "closing" /\ pgwebCloseFunc) => ui = "terminated"
    /\ (\E j \in TermsOf("primary") : termLog[j].ctx = "shutdown") => ui # "running"

C1_Witness ==
    /\ ~detach
    /\ pgwebCloseFunc
    /\ termLog = <<TermEntry("ui", "shutdown", TRUE), TermEntry("primary", "shutdown", TRUE)>>
    /\ primary = "terminated"
    /\ ui = "terminated"

\* C3: the step in which a caller's clone statement succeeds returns the new
\* database's URI at once; the call has issued the clone statement and nothing
\* else, whatever its request carries.
C3_FastPathReturns ==
    [][\A c \in Callers :
         (CloneStep(c) /\ ~catalog[cname[c]].exists /\ catalog'[cname[c]].exists) =>
            /\ cpc'[c] = "idle"
            /\ cres'[c] = Ok(cname[c])
            /\ cstmts'[c] = <<Stmt("clone", DefaultTemplate)>>]_vars

C3_Witness ==
    \E c \in Callers :
      /\ cpc[c] = "idle"
      /\ creq[c].Migrations = "migrations"
      /\ creq[c].Fixtures = "fixtures"
      /\ cres[c] = Ok(cname[c])
      /\ cstmts[c] = <<Stmt("clone", DefaultTemplate)>>
      /\ catalog[cname[c]].exists

\* C4: a clone step whose statement fails with anything but the missing-template
\* answer ends the call with that error and only the clone statement issued; a
\* call reaches the plain create only when the server answered that the
\* template does not exist.
C4_NoFallbackOnOtherErrors ==
    [][\A c \in Callers :
         CloneStep(c) =>
            /\ (cpc'[c] = "create") <=> (serverUp /\ ~TemplateExists)
            /\ (~(serverUp /\ ~TemplateExists) /\ ~catalog'[cname[c]].exists) =>
                  /\ cpc'[c] = "idle"
                  /\ cres'[c].status = "err"
                  /\ cres'[c].err \in {MsgConnRefused, MsgAlreadyExists, MsgSourceBusy}
                  /\ cstmts'[c] = <<Stmt("clone", DefaultTemplate)>>]_vars

C4_Witness ==
    \E c \in Callers :
      /\ cpc[c] = "idle"
      /\ creq[c].Migrations = "migrations"
      /\ cres[c] = Failed(MsgSourceBusy)
      /\ cstmts[c] = <<Stmt("clone", DefaultTemplate)>>
      /\ TemplateExists
      /\ ~catalog[cname[c]].exists

\* C5: facing probes that all fail with an error other than the deadline, the
\* poller is no longer polling once the deadline's ticks have elapsed: Start has
\* returned the readiness error.
C5_PollerFailsAtDeadline ==
    (~sqlOpenOK /\ elapsed >= TimeoutTicks) => (pc = "returned" /\ startErr = "readiness")

\* C6: Start is past the readiness poll (Ready was reported) only when the
\* server has accepted and completed a connection.
C6_ReadyOnlyAfterHandshake ==
    pc \in {"migrate", "snapshot", "fixtures", "ui", "blocked", "closing"} => accepted

\* C7: a failed pgweb Terminate during shutdown is the last Terminate Start
\* makes and Start returns its error with the primary container untouched; a
\* successful one is followed by the primary container's Terminate, whose result
\* Start returns.
C7_StrictShutdownOrder ==
    \A i \in TermsOf("ui") :
      /\ ~termLog[i].ok =>
           /\ i = Len(termLog)
           /\ pc = "returned"
           /\ startErr = "uiTerminate"
           /\ (TermsOf("primary") = {} => primary = "running")
      /\ termLog[i].ok =>
           \/ pc = "closing" /\ i = Len(termLog)
           \/ /\ pc = "returned"
              /\ i < Len(termLog)
              /\ termLog[i + 1].target = "primary"
              /\ termLog[i + 1].ctx = "shutdown"
              /\ startErr = IF termLog[i + 1].ok THEN "nil" ELSE "primaryTerminate"

C7_Witness ==
    /\ pc = "returned"
    /\ startErr = "uiTerminate"
    /\ termLog = <<TermEntry("ui", "shutdown", FALSE)>>
    /\ ui = "running"
    /\ primary = "running"

\* C8 as claimed: Start never returns the pgweb launch error while the primary
\* container is running.
C8_PrimaryStoppedOnUIFailure ==
    startErr = "uiLaunch" => primary # "running"

\* C8, amended: when Start returns the pgweb launch error it has called the
\* primary container's Terminate exactly once, and the primary container is
\* stopped whenever that call succeeded.
C8_PrimaryTerminateInvoked ==
    startErr = "uiLaunch" =>
      /\ pc = "returned"
      /\ ui = "none"
      /\ Len(termLog) = 1
      /\ termLog[1].target = "primary"
      /\ termLog[1].ok => primary = "terminated"

C8_Witness ==
    /\ startErr = "uiLaunch"
    /\ cfg.withUI
    /\ termLog = <<TermEntry("primary", "parent", TRUE)>>
    /\ primary = "terminated"

\* C9: the snapshot step of Start and of CreateDB always hands over to the
\* fixtures step and leaves the result untouched, whether or not the template
\* was created; no snapshot failure is ever what Start or CreateDB returns.
C9_SnapshotBestEffort ==
    [][/\ pc = "snapshot" => (pc' \in {"snapshot", "fixtures"} /\ startErr' = startErr)
       /\ \A c \in Callers :
            cpc[c] = "snapshot" =>
              /\ cpc'[c] \in {"snapshot", "fixtures"}
              /\ cres'[c] = cres[c]]_vars

C9_Witness ==
    /\ pc = "returned"
    /\ startErr = "nil"
    /\ Len(cfg.migrationsFiles) > 0
    /\ ~TemplateExists
    /\ catalog[DefaultName].data = cfg.migrationsFiles \o cfg.fixtureFiles
    /\ Len(cfg.fixtureFiles) > 0
    /\ nCalls = 0

\* C10: the template, once it exists, stays, and a clone step taken while it
\* exists ends the call there: the call never reaches the slow path, so it
\* applies no migration.
C10_NoMigrationOnceTemplateExists ==
    [][/\ TemplateExists => TemplateExists'
       /\ \A c \in Callers :
            (CloneStep(c) /\ TemplateExists) =>
              /\ cpc'[c] = "idle"
              /\ cstmts'[c] = <<Stmt("clone", DefaultTemplate)>>]_vars

C10_Witness ==
    \E c \in Callers, d \in Callers :
      /\ c # d
      /\ nCalls = 2
      /\ cpc[c] = "idle"
      /\ cpc[d] = "idle"
      /\ "migration" \in KindsOf(d)
      /\ cres[d] = Ok(cname[d])
      /\ cres[c] = Ok(cname[c])
      /\ cstmts[c] = <<Stmt("clone", DefaultTemplate)>>
      /\ catalog[cname[c]].data = catalog[DefaultTemplate].data
      /\ UpFile \in {catalog[cname[c]].data[i] : i \in 1..Len(catalog[cname[c]].data)}

\* Caller c takes its snapshot step in this transition.
SnapshotStep(c) == cpc[c] = "snapshot" /\ cstmts'[c] # cstmts[c]

\* Caller c's call is over and went through the slow path as far as the snapshot.
SlowPathDone(c) == cpc[c] = "idle" /\ "snapshot" \in KindsOf(c)

CreatesOwnDatabase(c) ==
    /\ cpc[c] \in {"clone", "create"}
    /\ cstmts'[c] # cstmts[c]
    /\ catalog'[cname[c]].exists
    /\ catalog' # catalog

\* The results of callers c and d name different databases, neither of them the
\* primary instance's.
DistinctResults(c, d) ==
    (cres[c].status = "ok" /\ cres[d].status = "ok") =>
      /\ cres[c].uri # cres[d].uri
      /\ cres[c].uri # DefaultName
      /\ cres[d].uri # DefaultName

\* C13: two successful CreateDB calls return different database names, none of
\* them the primary's, also when both read the same clock value: a call only
\* succeeds with the name of a database its own statement created, a statement
\* creates a database only under a name that did not exist, and no database
\* ever disappears, so a second call with the same generated name fails.
C13_DistinctDatabases ==
    [][/\ \A c \in Callers, d \in Callers : c # d => DistinctResults(c, d)'
       /\ \A n \in DbNames : catalog[n].exists => catalog'[n].exists
       /\ \A c \in Callers :
            /\ CreatesOwnDatabase(c) => ~catalog[cname[c]].exists
            /\ (cres'[c] # cres[c] /\ cres'[c].status = "ok") =>
                 /\ cres'[c].uri = cname[c]
                 /\ cres'[c].uri \notin {DefaultName, DefaultTemplate}
                 /\ \/ CreatesOwnDatabase(c)
                    \/ "create" \in KindsOf(c)]_vars

C13_Witness ==
    \E c \in Callers, d \in Callers :
      /\ c # d
      /\ cpc[c] = "idle"
      /\ cpc[d] = "idle"
      /\ cres[c] = Ok(DbName(1))
      /\ cres[d] = Ok(DbName(2))
      /\ catalog[DbName(1)].exists
      /\ catalog[DbName(2)].exists

\* Start, past <-ctx.Done(), calls a Terminate in this transition.
ShutdownTerminate == pc \in {"blocked", "closing"} /\ termLog' # termLog

\* C16: every Terminate that Start calls once shutdown has begun happens after
\* the parent context was cancelled and receives the shutdown context, never
\* the parent; the UI teardown, when it succeeds, hands over to the primary
\* teardown, which is then ready to run.
C16_FreshShutdownContext ==
    [][ShutdownTerminate =>
         /\ ctxDone
         /\ Len(termLog') = Len(termLog) + 1
         /\ SubSeq(termLog', 1, Len(termLog)) = termLog
         /\ termLog'[Len(termLog')].ctx = "shutdown"
         /\ termLog'[Len(termLog')].target = IF pc = "blocked" THEN "ui" ELSE "primary"
         /\ (pc = "blocked" /\ termLog'[Len(termLog')].ok) =>
              (pc' = "closing" /\ (ENABLED StartShutdownPrimary)')]_vars

C16_Witness ==
    /\ ctxDone
    /\ pc = "returned"
    /\ startErr = "nil"
    /\ Len(termLog) = 2
    /\ termLog[1] = TermEntry("ui", "shutdown", TRUE)
    /\ termLog[2] = TermEntry("primary", "shutdown", TRUE)
    /\ ui = "terminated"
    /\ primary = "terminated"

\* C17 as claimed: no statement CreateDB executes as a migration comes from a
\* file whose name ends in down.sql.
C17_NoDownFileInCreateDB ==
    \A c \in Callers :
      \A i \in 1..Len(cstmts[c]) :
        cstmts[c][i].kind = "migration" => IsForward(cstmts[c][i].arg)

\* Caller c's call is over and returned a clone of the template.
FastPathDone(c) ==
    /\ cpc[c] = "idle"
    /\ KindsOf(c) = {"clone"}
    /\ cres[c] = Ok(cname[c])

\* The files that caller c's call executed as statements of the given kind.
FilesOf(c, kind) ==
    LET picked == SelectSeq(cstmts[c], LAMBDA st : st.kind = kind)
    IN  [i \in 1..Len(picked) |-> picked[i].arg]

\* The file sequence holds no fixture file.
NoFixtureIn(data) == \A i \in 1..Len(data) : data[i] # FixtureFile

\* C18 as claimed: when Start made no template and two calls were made, a clone
\* returned by the fast path has the content of the database returned by the
\* slow-path call that made the template, fixtures included.
C18_CloneEqualsSlowPathDatabase ==
    \A c \in Callers, d \in Callers :
      ( /\ cfg.migrationsFiles = <<>>
        /\ nCalls = 2
        /\ FastPathDone(c)
        /\ SlowPathDone(d)
        /\ cres[d] = Ok(cname[d]) ) =>
        catalog[cname[c]].data = catalog[cname[d]].data

\* What the program does instead: the template is a copy of the snapshotting call's database as
\* it was after that call's migrations and before its fixtures, it never changes
\* afterwards, and a fast-path clone is a copy of the template: it holds the
\* migrations and none of the fixtures.
C18_CloneEqualsTemplate ==
    [][\A c \in Callers :
         /\ (SnapshotStep(c) /\ catalog' # catalog) =>
              /\ catalog'[DefaultTemplate].data = FilesOf(c, "migration")
              /\ "fixture" \notin KindsOf(c)
         /\ TemplateExists => catalog'[DefaultTemplate] = catalog[DefaultTemplate]
         /\ NoFixtureIn(catalog'[DefaultTemplate].data)
         /\ (CloneStep(c) /\ cres'[c].status = "ok") =>
              /\ TemplateExists
              /\ catalog'[cname[c]] = catalog[DefaultTemplate]
              /\ cpc'[c] = "idle"
         /\ FastPathDone(c)' =>
              /\ catalog'[cname[c]] = catalog'[DefaultTemplate]
              /\ NoFixtureIn(catalog'[cname[c]].data)]_vars

C18_Witness ==
    \E c \in Callers, d \in Callers :
      /\ cfg.migrationsFiles = <<>>
      /\ nCalls = 2
      /\ FastPathDone(c)
      /\ creq[c].Fixtures = "fixtures"
      /\ SlowPathDone(d)
      /\ cres[d] = Ok(cname[d])
      /\ catalog[DefaultTemplate].data = ReadDir("migrations")
      /\ catalog[cname[c]].data = ReadDir("migrations")
      /\ catalog[cname[d]].data = ReadDir("migrations") \o ReadDir("fixtures")

\* The order in which Start moves from one step to the next.
StartOrder ==
    {<<"idle", "poll">>, <<"poll", "migrate">>, <<"migrate", "snapshot">>,
     <<"snapshot", "fixtures">>, <<"fixtures", "ui">>, <<"ui", "blocked">>,
     <<"blocked", "closing">>}

\* What Start has done to the server and the containers when it stands at each
\* of its steps.
StartProgress ==
    /\ pc = "idle" => primary = "none"
    /\ pc \in {"idle", "poll", "migrate"} =>
         /\ catalog = FreshCatalog
         /\ ~accepted
    /\ pc = "snapshot" =>
         /\ catalog = [FreshCatalog EXCEPT ![DefaultName].data = cfg.migrationsFiles]
    /\ pc = "fixtures" =>
         /\ catalog[DefaultName].data = cfg.migrationsFiles
         /\ TemplateExists =>
              /\ Len(cfg.migrationsFiles) > 0
              /\ catalog[DefaultTemplate].data = cfg.migrationsFiles
    /\ pc = "ui" =>
         catalog[DefaultName].data = cfg.migrationsFiles \o cfg.fixtureFiles
    /\ pc \in {"idle", "poll", "migrate", "snapshot", "fixtures", "ui"} =>
         /\ ui = "none"
         /\ primary = IF pc = "idle" THEN "none" ELSE "running"
         /\ termLog = <<>>
         /\ nCalls = 0
    /\ ui # "none" =>
         /\ cfg.withUI
         /\ pc \in {"blocked", "closing", "returned"}
         /\ catalog[DefaultName].data = cfg.migrationsFiles \o cfg.fixtureFiles
    /\ (TemplateExists /\ nCalls = 0) => Len(cfg.migrationsFiles) > 0

\* C19: Start goes through launch, readiness, migrations, snapshot, fixtures
\* and UI launch in that order, each step starting only when the one before
\* succeeded and otherwise returning; nothing is sent to the server before the
\* poller reported Ready, the snapshot is attempted only with at least one
\* migration file, and the pgweb container exists only after all of it.
C19_StartStepOrder ==
    [][/\ StartProgress'
       /\ pc' # pc => (<<pc, pc'>> \in StartOrder \/ pc' = "returned")
       /\ (pc' = "returned" /\ pc \in {"idle", "poll", "migrate", "fixtures"}) =>
            startErr' \in {"launch", "readiness", "migrations", "fixtures"}]_vars

C19_Witness ==
    /\ pc = "blocked"
    /\ cfg.withUI
    /\ ui = "running"
    /\ primary = "running"
    /\ nCalls = 0
    /\ accepted
    /\ TemplateExists
    /\ catalog[DefaultTemplate].data = <<UpFile>>
    /\ catalog[DefaultName].data = <<UpFile, FixtureFile>>

\* C12 as claimed: no Terminate is issued against a container that an earlier
\* Terminate has already stopped.
C12_NoTerminateAfterTerminate ==
    \A i \in 1..Len(termLog), j \in 1..Len(termLog) :
      (i < j /\ termLog[i].ok) => termLog[j].target # termLog[i].target

\* C20: once Start has returned a migrations or fixtures error, no pgweb
\* container exists, Start has called no Terminate, the container ID is still
\* recorded, every Terminate in the log is one made by a later Stop, and the
\* primary container runs until one of those succeeds.
C20_PrimaryLeftRunning ==
    startErr \in {"migrations", "fixtures"} =>
      /\ pc = "returned"
      /\ ui = "none"
      /\ ~pgwebCloseFunc
      /\ containerID = "pg"
      /\ Len(termLog) = Len(stops)
      /\ \A i \in 1..Len(termLog) :
           /\ termLog[i] = TermEntry("primary", "stop", stops[i] = "nil")
      /\ primary = IF \E i \in 1..Len(termLog) : termLog[i].ok
                   THEN "terminated" ELSE "running"

C20_Witness ==
    /\ startErr = "migrations"
    /\ pc = "returned"
    /\ ~serverUp
    /\ containerID = "pg"
    /\ termLog = <<TermEntry("primary", "stop", FALSE), TermEntry("primary", "stop", TRUE)>>
    /\ stops = <<"err", "nil">>
    /\ primary = "terminated"

\* C14 as claimed: a RemoveDB call that reached a running server sent the
\* termination statement and then the drop statement, and when its target
\* existed, with or without sessions, it returned success and the target is gone.
C14_RemoveDBDropsExisting ==
    \A i \in 1..Len(removes) :
      (removes[i].executed /\ removes[i].existed) =>
        /\ removes[i].stmts = <<TerminateStmt, DropStmt>>
        /\ removes[i].err = NoErr
        /\ ~catalog[removes[i].target].exists

\* C15 as claimed: a RemoveDB call that reached a running server and whose target
\* did not exist returned an error classified as "does not exist".
C15_RemoveDBMissingClassified ==
    \A i \in 1..Len(removes) :
      (removes[i].executed /\ ~removes[i].existed) =>
        /\ removes[i].err # NoErr
        /\ Contains(removes[i].err, <<"does", "not", "exist">>)

====
